---- MODULE Spec2Model ----
(***************************************************************************)
(* A model of eelink2mqtt.py: the Eelink V2 server.  One thread per        *)
(* accepted connection runs _handle_client; each iteration of its loop     *)
(* reads one packet and hands it to _process_packet, which dispatches on   *)
(* the command byte, writes acks to the socket and publishes telemetry.    *)
(* Packets and acks are sequences of bytes (0..255); TLA+ sequences are    *)
(* 1-based, so Python's packet[i] is packet[i+1] here.                     *)
(***************************************************************************)
EXTENDS Integers, Sequences, FiniteSets, TLC

(***************************************************************************)
(* Protocol constants (class attributes of EelinkV2Server).                *)
(***************************************************************************)
HEADER_MARK1 == 103
HEADER_MARK2 == 103
CMD_LOGIN == 1
CMD_HEARTBEAT == 3
CMD_LOCATION == 18

\* Minimum length of a packet accepted by _process_packet.
MinPacketLen == 9
\* Minimum length of a LOGIN packet accepted by _handle_login.
MinLoginLen == 20
\* Size of one location record in _handle_location.
ChunkLen == 74
\* Largest value of an unsigned 16-bit ('H') field.
MaxU16 == 65535

\* Python's None, as the value of device_imei before any login.  It is not
\* a hexadecimal string, so it differs from every IMEI _handle_login returns.
None == "None"

(***************************************************************************)
(* Bounds of the model.                                                    *)
(***************************************************************************)
\* Number of connections the server accepts.
NumConns == 2
\* Number of packets received over all connections.
MaxPackets == 3
\* Number of full 74-byte records in a generated LOCATION packet.
MaxChunks == 2

Conns == 1..NumConns

(***************************************************************************)
(* Byte-level helpers: what bytes slicing, int.from_bytes, struct.pack     *)
(* and hex() compute.                                                      *)
(***************************************************************************)
Min(a, b) == IF a < b THEN a ELSE b

\* Python's s[a:b] for 0 <= a <= b: clipped to the end of s, never raises.
Slice(s, a, b) == SubSeq(s, a + 1, Min(b, Len(s)))

\* Python's s[a:].
SliceFrom(s, a) == SubSeq(s, a + 1, Len(s))

\* int.from_bytes(bs, 'big'); 0 for the empty byte string.
RECURSIVE IntFromBytes(_)
IntFromBytes(bs) ==
    IF bs = << >> THEN 0
    ELSE 256 * IntFromBytes(SubSeq(bs, 1, Len(bs) - 1)) + bs[Len(bs)]

\* struct.pack('>H', v): two bytes, most significant first.
PackH(v) == << (v \div 256) % 256, v % 256 >>

\* struct.pack('>I', v): four bytes, most significant first.
PackI(v) == << (v \div 16777216) % 256, (v \div 65536) % 256,
               (v \div 256) % 256, v % 256 >>

HexDigits == << "0", "1", "2", "3", "4", "5", "6", "7",
                "8", "9", "a", "b", "c", "d", "e", "f" >>

\* The hexadecimal digits of the big-endian integer held in bs, without
\* leading zeros; the empty string for the value zero.
RECURSIVE HexNoLeadingZeros(_)
HexNoLeadingZeros(bs) ==
    IF bs = << >> THEN ""
    ELSE LET hd == HexNoLeadingZeros(SubSeq(bs, 1, Len(bs) - 1))
             b  == bs[Len(bs)]
         IN  IF hd # "" THEN hd \o HexDigits[(b \div 16) + 1] \o HexDigits[(b % 16) + 1]
             ELSE IF b \div 16 # 0 THEN HexDigits[(b \div 16) + 1] \o HexDigits[(b % 16) + 1]
             ELSE IF b # 0 THEN HexDigits[b + 1]
             ELSE ""

\* HexOfBytes with every leading zero stripped, the only digit of the value
\* zero included.
HexOfBytes_ZeroIsEmpty(bs) == HexNoLeadingZeros(bs)

\* hex(int.from_bytes(bs, 'big'))[2:]
HexOfBytes(bs) ==
    LET h == HexNoLeadingZeros(bs) IN IF h = "" THEN "0" ELSE h

\* Python truthiness of device_imei: None and the empty string are false.
Truthy(imei) == imei # None /\ imei # ""

(***************************************************************************)
(* Acknowledgment frames.                                                  *)
(***************************************************************************)
\* ShortAck with the sequence number packed least significant byte first
\* ('<H' for '>H').
ShortAck_SeqLowByteFirst(cmd, seq) ==
    << HEADER_MARK1, HEADER_MARK2, cmd >> \o PackH(2) \o << seq % 256, (seq \div 256) % 256 >>

\* struct.pack('>BBBHH', HEADER_MARK1, HEADER_MARK2, cmd, 2, seq): the ack of
\* _handle_heartbeat, _handle_location and _send_ack.
ShortAck(cmd, seq) ==
    << HEADER_MARK1, HEADER_MARK2, cmd >> \o PackH(2) \o PackH(seq)

\* LoginAck with the size field set to the size of the whole frame (14).
LoginAck_SizeOfWholeFrame(seq, now) ==
    << HEADER_MARK1, HEADER_MARK2, CMD_LOGIN >> \o PackH(14) \o PackH(seq)
        \o PackI(now) \o PackH(1) \o << 0 >>

\* struct.pack('>BBBHHIHB', HEADER_MARK1, HEADER_MARK2, CMD_LOGIN, 9, seq,
\*             int(time.time()), 1, 0): the ack of _handle_login.
LoginAck(seq, now) ==
    << HEADER_MARK1, HEADER_MARK2, CMD_LOGIN >> \o PackH(9) \o PackH(seq)
        \o PackI(now) \o PackH(1) \o << 0 >>

(***************************************************************************)
(* _parse_position.  Every struct.unpack_from raises when the buffer is    *)
(* shorter than offset + size; the result then has ok = FALSE.             *)
(***************************************************************************)
\* OptBlocks with a BSID0 block of 7 bytes, the size of BSID1 and BSID2.
OptBlocks_Bsid0Seven ==
    << [bit |-> 1,  size |-> 15, key |-> "gps"],
       [bit |-> 2,  size |-> 7,  key |-> "bsid0"],
       [bit |-> 4,  size |-> 7,  key |-> "bsid1"],
       [bit |-> 8,  size |-> 7,  key |-> "bsid2"],
       [bit |-> 16, size |-> 7,  key |-> "bss0"],
       [bit |-> 32, size |-> 7,  key |-> "bss1"],
       [bit |-> 64, size |-> 7,  key |-> "bss2"] >>

\* The optional blocks of a POSITION structure in the order the code tests
\* them: the mask bit, the bytes the block needs and consumes, and the name
\* of the sub-record.
OptBlocks ==
    << [bit |-> 1,  size |-> 15, key |-> "gps"],
       [bit |-> 2,  size |-> 11, key |-> "bsid0"],
       [bit |-> 4,  size |-> 7,  key |-> "bsid1"],
       [bit |-> 8,  size |-> 7,  key |-> "bsid2"],
       [bit |-> 16, size |-> 7,  key |-> "bss0"],
       [bit |-> 32, size |-> 7,  key |-> "bss1"],
       [bit |-> 64, size |-> 7,  key |-> "bss2"] >>

\* mask & bit
BitSet(mask, bit) == (mask \div bit) % 2 = 1

\* The chain of `if mask & bit:` blocks, from block i on.
RECURSIVE ParseBlocks(_, _, _, _, _)
ParseBlocks(data, mask, i, offset, keys) ==
    IF i > Len(OptBlocks) THEN [ok |-> TRUE, offset |-> offset, keys |-> keys]
    ELSE LET b == OptBlocks[i]
         IN  IF BitSet(mask, b.bit)
             THEN IF offset + b.size > Len(data)
                  THEN [ok |-> FALSE, offset |-> offset, keys |-> keys]
                  ELSE ParseBlocks(data, mask, i + 1, offset + b.size, keys \cup {b.key})
             ELSE ParseBlocks(data, mask, i + 1, offset, keys)

\* SignedH without the reinterpretation: the unsigned value.
SignedH_Unsigned(alt) == alt

\* struct.unpack('>h', struct.pack('>H', alt))[0]
SignedH(alt) == IF alt >= 32768 THEN alt - 65536 ELSE alt

\* _parse_position(data): ok = FALSE when an unpack raised; otherwise the
\* bytes consumed, the timestamp, the sub-records present, and the altitude:
\* << a >> for position["altitude_m"] = a, << >> when the key is absent
\* (position.get('altitude_m') is then None).
ParsePosition(data) ==
    IF Len(data) < 5
    THEN [ok |-> FALSE, offset |-> IF Len(data) < 4 THEN 0 ELSE 4,
          time |-> 0, keys |-> {}, altitude_m |-> << >>]
    ELSE LET r == ParseBlocks(data, data[5], 1, 5, {})
         IN  [ok |-> r.ok, offset |-> r.offset,
              time |-> IntFromBytes(Slice(data, 0, 4)),
              keys |-> r.keys,
              altitude_m |-> IF r.ok /\ "gps" \in r.keys
                             THEN << SignedH(IntFromBytes(Slice(data, 13, 15))) >>
                             ELSE << >>]

(***************************************************************************)
(* Command handlers.  Each returns the acks it wrote to the socket (acks), *)
(* the calls it made to _publish_mqtt (pubs), whether an exception left    *)
(* the handler (raised) and whether a socket write raised (wrErr).         *)
(* failAt = k > 0 makes the k-th client_socket.send of this packet raise;  *)
(* pubFail = k > 0 makes the k-th mqtt_client.publish of this packet       *)
(* raise, which _publish_mqtt catches and logs.                            *)
(***************************************************************************)
\* The call _publish_mqtt(device_id, data): delivered is FALSE when
\* mqtt_client.publish raised inside it.
PublishCall(device_id, data, delivered) ==
    [device_id |-> device_id, data |-> data, delivered |-> delivered]

\* _handle_login(client_socket, packet): ret is the returned value.
HandleLogin(packet, now, failAt) ==
    IF Len(packet) < MinLoginLen
    THEN [ret |-> None, acks |-> << >>, pubs |-> << >>,
          raised |-> FALSE, wrErr |-> FALSE]
    ELSE LET imei == HexOfBytes(Slice(packet, 7, 15))
             seq  == IntFromBytes(Slice(packet, 5, 7))
         IN  IF failAt = 1
             THEN [ret |-> None, acks |-> << >>, pubs |-> << >>,
                   raised |-> TRUE, wrErr |-> TRUE]
             ELSE [ret |-> imei, acks |-> << LoginAck(seq, now) >>, pubs |-> << >>,
                   raised |-> FALSE, wrErr |-> FALSE]

\* HandleHeartbeat without the `if device_imei:` test before the publish.
HandleHeartbeat_AlwaysPublish(packet, device_imei, failAt, pubFail) ==
    LET seq    == IntFromBytes(Slice(packet, 5, 7))
        status == IntFromBytes(Slice(packet, 7, 9))
        pubs   == << PublishCall(device_imei,
                                 [kind |-> "heartbeat", status |-> status],
                                 pubFail # 1) >>
    IN  IF failAt = 1
        THEN [acks |-> << >>, pubs |-> pubs, raised |-> TRUE, wrErr |-> TRUE]
        ELSE [acks |-> << ShortAck(CMD_HEARTBEAT, seq) >>, pubs |-> pubs,
              raised |-> FALSE, wrErr |-> FALSE]

\* HandleHeartbeat that writes the ack first and publishes afterwards: a
\* failed write leaves the event unpublished.
HandleHeartbeat_AckFirst(packet, device_imei, failAt, pubFail) ==
    LET seq    == IntFromBytes(Slice(packet, 5, 7))
        status == IntFromBytes(Slice(packet, 7, 9))
        pubs   == IF Truthy(device_imei)
                  THEN << PublishCall(device_imei,
                                      [kind |-> "heartbeat", status |-> status],
                                      pubFail # 1) >>
                  ELSE << >>
    IN  IF failAt = 1
        THEN [acks |-> << >>, pubs |-> << >>, raised |-> TRUE, wrErr |-> TRUE]
        ELSE [acks |-> << ShortAck(CMD_HEARTBEAT, seq) >>, pubs |-> pubs,
              raised |-> FALSE, wrErr |-> FALSE]

\* HandleHeartbeat with a _publish_mqtt that lets the exception of
\* mqtt_client.publish through: the handler is left before the ack.
HandleHeartbeat_PublishRaises(packet, device_imei, failAt, pubFail) ==
    LET seq    == IntFromBytes(Slice(packet, 5, 7))
        status == IntFromBytes(Slice(packet, 7, 9))
        pubs   == IF Truthy(device_imei)
                  THEN << PublishCall(device_imei,
                                      [kind |-> "heartbeat", status |-> status],
                                      pubFail # 1) >>
                  ELSE << >>
    IN  IF (Truthy(device_imei) /\ pubFail = 1) \/ failAt = 1
        THEN [acks |-> << >>, pubs |-> pubs, raised |-> TRUE, wrErr |-> failAt = 1]
        ELSE [acks |-> << ShortAck(CMD_HEARTBEAT, seq) >>, pubs |-> pubs,
              raised |-> FALSE, wrErr |-> FALSE]

\* _handle_heartbeat(client_socket, packet, device_imei)
HandleHeartbeat(packet, device_imei, failAt, pubFail) ==
    LET seq    == IntFromBytes(Slice(packet, 5, 7))
        status == IntFromBytes(Slice(packet, 7, 9))
        pubs   == IF Truthy(device_imei)
                  THEN << PublishCall(device_imei,
                                      [kind |-> "heartbeat", status |-> status],
                                      pubFail # 1) >>
                  ELSE << >>
    IN  IF failAt = 1
        THEN [acks |-> << >>, pubs |-> pubs, raised |-> TRUE, wrErr |-> TRUE]
        ELSE [acks |-> << ShortAck(CMD_HEARTBEAT, seq) >>, pubs |-> pubs,
              raised |-> FALSE, wrErr |-> FALSE]

\* LocationLoop that handles a packet as a whole: when a record cannot be
\* unpacked, nothing of the packet is acked or published.
RECURSIVE LocationLoop_AllOrNothing(_, _, _, _, _, _, _)
LocationLoop_AllOrNothing(packet, device_imei, start, failAt, pubFail, acks, pubs) ==
    IF start >= Len(packet)
    THEN [acks |-> acks, pubs |-> pubs, raised |-> FALSE, wrErr |-> FALSE]
    ELSE LET chunk        == Slice(packet, start, start + ChunkLen)
             seq          == IntFromBytes(Slice(chunk, 5, 7))
             data_section == SliceFrom(chunk, 7)
             pos          == ParsePosition(data_section)
             offset       == pos.offset
             status       == IntFromBytes(Slice(data_section, offset, offset + 2))
             humidity     == IntFromBytes(Slice(data_section, offset + 22, offset + 24))
             mqtt_data    == [kind |-> "location", timestamp |-> pos.time,
                              altitude |-> pos.altitude_m, status |-> status,
                              humidity |-> humidity,
                              cell_info |-> "bsid0" \in pos.keys]
             pubs2        == IF Truthy(device_imei)
                             THEN Append(pubs, PublishCall(device_imei, mqtt_data,
                                                           pubFail # Len(pubs) + 1))
                             ELSE pubs
         IN  IF ~pos.ok
             THEN [acks |-> << >>, pubs |-> << >>, raised |-> TRUE, wrErr |-> FALSE]
             ELSE IF failAt = Len(acks) + 1
             THEN [acks |-> acks, pubs |-> pubs2, raised |-> TRUE, wrErr |-> TRUE]
             ELSE LocationLoop_AllOrNothing(packet, device_imei, start + ChunkLen, failAt, pubFail,
                               Append(acks, ShortAck(CMD_LOCATION, seq)), pubs2)

\* LocationLoop with seq read once from the packet (packet[5:7]) instead of
\* from each chunk.
RECURSIVE LocationLoop_PacketSeq(_, _, _, _, _, _, _)
LocationLoop_PacketSeq(packet, device_imei, start, failAt, pubFail, acks, pubs) ==
    IF start >= Len(packet)
    THEN [acks |-> acks, pubs |-> pubs, raised |-> FALSE, wrErr |-> FALSE]
    ELSE LET chunk        == Slice(packet, start, start + ChunkLen)
             seq          == IntFromBytes(Slice(packet, 5, 7))
             data_section == SliceFrom(chunk, 7)
             pos          == ParsePosition(data_section)
             offset       == pos.offset
             status       == IntFromBytes(Slice(data_section, offset, offset + 2))
             humidity     == IntFromBytes(Slice(data_section, offset + 22, offset + 24))
             mqtt_data    == [kind |-> "location", timestamp |-> pos.time,
                              altitude |-> pos.altitude_m, status |-> status,
                              humidity |-> humidity,
                              cell_info |-> "bsid0" \in pos.keys]
             pubs2        == IF Truthy(device_imei)
                             THEN Append(pubs, PublishCall(device_imei, mqtt_data,
                                                           pubFail # Len(pubs) + 1))
                             ELSE pubs
         IN  IF ~pos.ok
             THEN [acks |-> acks, pubs |-> pubs, raised |-> TRUE, wrErr |-> FALSE]
             ELSE IF failAt = Len(acks) + 1
             THEN [acks |-> acks, pubs |-> pubs2, raised |-> TRUE, wrErr |-> TRUE]
             ELSE LocationLoop_PacketSeq(packet, device_imei, start + ChunkLen, failAt,
                                         pubFail,
                                         Append(acks, ShortAck(CMD_LOCATION, seq)), pubs2)

\* The body of `for chunk in chunks:` in _handle_location, from the chunk
\* that starts at packet offset start; acks and pubs are what the earlier
\* chunks produced.
RECURSIVE LocationLoop(_, _, _, _, _, _, _)
LocationLoop(packet, device_imei, start, failAt, pubFail, acks, pubs) ==
    IF start >= Len(packet)
    THEN [acks |-> acks, pubs |-> pubs, raised |-> FALSE, wrErr |-> FALSE]
    ELSE LET chunk        == Slice(packet, start, start + ChunkLen)
             seq          == IntFromBytes(Slice(chunk, 5, 7))
             data_section == SliceFrom(chunk, 7)
             pos          == ParsePosition(data_section)
             offset       == pos.offset
             status       == IntFromBytes(Slice(data_section, offset, offset + 2))
             humidity     == IntFromBytes(Slice(data_section, offset + 22, offset + 24))
             mqtt_data    == [kind |-> "location", timestamp |-> pos.time,
                              altitude |-> pos.altitude_m, status |-> status,
                              humidity |-> humidity,
                              cell_info |-> "bsid0" \in pos.keys]
             pubs2        == IF Truthy(device_imei)
                             THEN Append(pubs, PublishCall(device_imei, mqtt_data,
                                                           pubFail # Len(pubs) + 1))
                             ELSE pubs
         IN  IF ~pos.ok
             THEN [acks |-> acks, pubs |-> pubs, raised |-> TRUE, wrErr |-> FALSE]
             ELSE IF failAt = Len(acks) + 1
             THEN [acks |-> acks, pubs |-> pubs2, raised |-> TRUE, wrErr |-> TRUE]
             ELSE LocationLoop(packet, device_imei, start + ChunkLen, failAt, pubFail,
                               Append(acks, ShortAck(CMD_LOCATION, seq)), pubs2)

\* _handle_location(client_socket, packet, device_imei)
HandleLocation(packet, device_imei, failAt, pubFail) ==
    LocationLoop(packet, device_imei, 0, failAt, pubFail, << >>, << >>)

\* SendAck answering with the heartbeat command instead of the received one.
SendAck_HeartbeatCmd(packet, failAt) ==
    LET seq == IntFromBytes(Slice(packet, 5, 7))
    IN  IF failAt = 1
        THEN [acks |-> << >>, pubs |-> << >>, raised |-> TRUE, wrErr |-> TRUE]
        ELSE [acks |-> << ShortAck(CMD_HEARTBEAT, seq) >>, pubs |-> << >>,
              raised |-> FALSE, wrErr |-> FALSE]

\* _send_ack(client_socket, packet)
SendAck(packet, failAt) ==
    LET seq == IntFromBytes(Slice(packet, 5, 7))
    IN  IF failAt = 1
        THEN [acks |-> << >>, pubs |-> << >>, raised |-> TRUE, wrErr |-> TRUE]
        ELSE [acks |-> << ShortAck(packet[3], seq) >>, pubs |-> << >>,
              raised |-> FALSE, wrErr |-> FALSE]

\* ValidHeader without the marker test.
ValidHeader_NoMarkerTest(packet) ==
    ~(Len(packet) < MinPacketLen)

\* The header test at the top of _process_packet.
ValidHeader(packet) ==
    ~(Len(packet) < MinPacketLen \/ packet[1] # HEADER_MARK1 \/ packet[2] # HEADER_MARK2)

\* ProcessPacket that takes the identity of a LOGIN as soon as the IMEI is
\* decoded, whether or not the handler then raised.
ProcessPacket_LoginBeforeAck(packet, device_imei, now, failAt, pubFail) ==
    IF ~ValidHeader(packet)
    THEN [imei |-> device_imei, acks |-> << >>, pubs |-> << >>, wrErr |-> FALSE]
    ELSE LET cmd == packet[3]
         IN  IF cmd = CMD_LOGIN
             THEN LET r == HandleLogin(packet, now, failAt)
                  IN  [imei |-> IF r.raised THEN HexOfBytes(Slice(packet, 7, 15)) ELSE r.ret,
                       acks |-> r.acks, pubs |-> r.pubs, wrErr |-> r.wrErr]
             ELSE LET r == IF cmd = CMD_HEARTBEAT
                           THEN HandleHeartbeat(packet, device_imei, failAt, pubFail)
                           ELSE IF cmd = CMD_LOCATION
                           THEN HandleLocation(packet, device_imei, failAt, pubFail)
                           ELSE SendAck(packet, failAt)
                  IN  [imei |-> device_imei,
                       acks |-> r.acks, pubs |-> r.pubs, wrErr |-> r.wrErr]

\* ProcessPacket with an except clause that returns None: an exception in a
\* heartbeat, location or generic handler drops the identity.
ProcessPacket_ExceptReturnsNone(packet, device_imei, now, failAt, pubFail) ==
    IF ~ValidHeader(packet)
    THEN [imei |-> device_imei, acks |-> << >>, pubs |-> << >>, wrErr |-> FALSE]
    ELSE LET cmd == packet[3]
         IN  IF cmd = CMD_LOGIN
             THEN LET r == HandleLogin(packet, now, failAt)
                  IN  [imei |-> IF r.raised THEN device_imei ELSE r.ret,
                       acks |-> r.acks, pubs |-> r.pubs, wrErr |-> r.wrErr]
             ELSE LET r == IF cmd = CMD_HEARTBEAT
                           THEN HandleHeartbeat(packet, device_imei, failAt, pubFail)
                           ELSE IF cmd = CMD_LOCATION
                           THEN HandleLocation(packet, device_imei, failAt, pubFail)
                           ELSE SendAck(packet, failAt)
                  IN  [imei |-> IF r.raised THEN None ELSE device_imei,
                       acks |-> r.acks, pubs |-> r.pubs, wrErr |-> r.wrErr]

\* _process_packet(client_socket, packet, device_imei): imei is the value it
\* returns, which _handle_client stores in device_imei.  The except clause
\* catches whatever a handler raised and falls through to
\* `return device_imei`.
ProcessPacket(packet, device_imei, now, failAt, pubFail) ==
    IF ~ValidHeader(packet)
    THEN [imei |-> device_imei, acks |-> << >>, pubs |-> << >>, wrErr |-> FALSE]
    ELSE LET cmd == packet[3]
         IN  IF cmd = CMD_LOGIN
             THEN LET r == HandleLogin(packet, now, failAt)
                  IN  [imei |-> IF r.raised THEN device_imei ELSE r.ret,
                       acks |-> r.acks, pubs |-> r.pubs, wrErr |-> r.wrErr]
             ELSE LET r == IF cmd = CMD_HEARTBEAT
                           THEN HandleHeartbeat(packet, device_imei, failAt, pubFail)
                           ELSE IF cmd = CMD_LOCATION
                           THEN HandleLocation(packet, device_imei, failAt, pubFail)
                           ELSE SendAck(packet, failAt)
                  IN  [imei |-> device_imei,
                       acks |-> r.acks, pubs |-> r.pubs, wrErr |-> r.wrErr]

(***************************************************************************)
(* Packets the devices send.                                               *)
(***************************************************************************)
\* n bytes of value b.
Pad(n, b) == [i \in 1..n |-> b]

\* A packet with the protocol's header: marker, command, a length field
\* (never read by the server), the sequence number, then the payload.
MkPacket(cmd, seq, payload) ==
    << HEADER_MARK1, HEADER_MARK2, cmd >> \o PackH(Len(payload) + 2) \o PackH(seq) \o payload

\* The 8 IMEI bytes of two devices: 0x0351608012345678 and 0x0000000000000abc.
ImeiA == << 3, 81, 96, 128, 18, 52, 86, 120 >>
ImeiB == << 0, 0, 0, 0, 0, 0, 10, 188 >>

\* A LOGIN packet of len bytes (len >= 7) carrying the first bytes of the
\* IMEI, then language/timezone/version bytes.
LoginPacket(imei, seq, len) ==
    SubSeq(MkPacket(CMD_LOGIN, seq, imei \o Pad(12, 1)), 1, len)

\* A HEARTBEAT packet: 2 status bytes.
HeartbeatPacket(seq, status) == MkPacket(CMD_HEARTBEAT, seq, PackH(status))

\* One location record cut to len bytes: header, 4-byte time, the mask, then
\* bytes of value fill for the optional blocks and the telemetry tail.
LocationChunk(seq, time, mask, fill, len) ==
    SubSeq(MkPacket(CMD_LOCATION, seq, PackI(time) \o << mask >> \o Pad(ChunkLen - 12, fill)),
           1, len)

\* The feature mask of the k-th record of a generated LOCATION packet.
ChunkMask(k) == << 3, 127, 128, 1 >>[((k - 1) % 4) + 1]

\* n full records; the k-th has sequence 300 + k, time k and fill byte k.
RECURSIVE FullChunks(_)
FullChunks(n) ==
    IF n = 0 THEN << >>
    ELSE FullChunks(n - 1) \o LocationChunk(300 + n, n, ChunkMask(n), n, ChunkLen)

\* A LOCATION packet: n full records, then a last record of tailLen bytes
\* (sequence 500, feature mask tailMask).
LocationPacket(n, tailLen, tailMask) ==
    FullChunks(n) \o LocationChunk(500, 9, tailMask, 200, tailLen)

\* A packet with a command the server does not know.
UnknownPacket == MkPacket(128, 4, << 0, 0 >>)

\* Packets _process_packet rejects: 8 bytes of a LOGIN, a single byte, a
\* full LOGIN whose first byte is not the marker, and a heartbeat whose
\* second byte is not the marker.
ShortPacket == LoginPacket(ImeiB, 5, 8)
OneBytePacket == << HEADER_MARK1 >>
BadMarkerPacket == << 104 >> \o SubSeq(LoginPacket(ImeiB, 6, MinLoginLen), 2, MinLoginLen)
BadSecondMarkerPacket == << HEADER_MARK1, 0 >> \o SubSeq(HeartbeatPacket(7, 258), 3, 9)

\* The packets of the server model: two devices logging in, a LOGIN that is
\* too short, and a heartbeat.
ServerPackets ==
    { LoginPacket(ImeiA, 1, MinLoginLen), LoginPacket(ImeiB, 2, MinLoginLen + 4),
      LoginPacket(ImeiA, 3, MinLoginLen - 1),
      HeartbeatPacket(MaxU16, 258) }

\* The packets of the session model: one of every kind.
SessionPackets ==
    { LoginPacket(ImeiA, 1, MinLoginLen), LoginPacket(ImeiB, 2, MinLoginLen + 4),
      LoginPacket(ImeiA, 3, MinLoginLen - 1),
      HeartbeatPacket(MaxU16, 258),
      LocationPacket(1, 0, 0),
      UnknownPacket,
      ShortPacket, OneBytePacket, BadMarkerPacket, BadSecondMarkerPacket }

\* Values of int(time.time()).
Times == { 1700000000 }

(***************************************************************************)
(* State.                                                                  *)
(***************************************************************************)
VARIABLES
    running,        \* self.running
    server_socket,  \* self.server_socket: "None", "listening" or "closed"
    pc,             \* per connection: "none" (not accepted), "check" (at the
                    \* while test), "recv" (in client_socket.recv), "done"
                    \* (thread ended, client_socket closed)
    device_imei,    \* per connection: the local device_imei of _handle_client
    data,           \* per connection: the local data, the last packet read
    sock,           \* per connection: the acks written to client_socket
    wrErr,          \* per connection: how many client_socket.send calls raised
    published,      \* the calls made to _publish_mqtt, in order
    nrecv           \* packets received so far, over all connections

vars == << running, server_socket, pc, device_imei, data, sock, wrErr, published, nrecv >>

\* The state after EelinkV2Server.__init__.
Init ==
    /\ running = FALSE
    /\ server_socket = "None"
    /\ pc = [c \in Conns |-> "none"]
    /\ device_imei = [c \in Conns |-> None]
    /\ data = [c \in Conns |-> << >>]
    /\ sock = [c \in Conns |-> << >>]
    /\ wrErr = [c \in Conns |-> 0]
    /\ published = << >>
    /\ nrecv = 0

\* start_server up to the accept loop.
StartServer ==
    /\ server_socket = "None"
    /\ server_socket' = "listening"
    /\ running' = TRUE
    /\ UNCHANGED << pc, device_imei, data, sock, wrErr, published, nrecv >>

\* One iteration of the accept loop: a thread running _handle_client is
\* started for the new connection; it begins with device_imei = None.
Accept(c) ==
    /\ running
    /\ server_socket = "listening"
    /\ pc[c] = "none"
    /\ pc' = [pc EXCEPT ![c] = "check"]
    /\ device_imei' = [device_imei EXCEPT ![c] = None]
    /\ UNCHANGED << running, server_socket, data, sock, wrErr, published, nrecv >>

\* stop_server
StopServer ==
    /\ running
    /\ running' = FALSE
    /\ server_socket' = IF server_socket = "None" THEN "None" ELSE "closed"
    /\ UNCHANGED << pc, device_imei, data, sock, wrErr, published, nrecv >>

\* `while self.running:` in _handle_client; leaving the loop runs the
\* finally clause, which closes the socket.
LoopCheck(c) ==
    /\ pc[c] = "check"
    /\ pc' = [pc EXCEPT ![c] = IF running THEN "recv" ELSE "done"]
    /\ UNCHANGED << running, server_socket, device_imei, data, sock, wrErr, published, nrecv >>

\* The calls of one packet, as calls of connection c.
CallsOf(c, pubs) ==
    [i \in 1..Len(pubs) |->
        [conn |-> c, device_id |-> pubs[i].device_id,
         data |-> pubs[i].data, delivered |-> pubs[i].delivered]]

\* Receive with the identity kept in one place for all connections (an
\* attribute of the server instead of a local of _handle_client).
Receive_SharedIdentity(c, packet, now, failAt, pubFail) ==
    /\ pc[c] = "recv"
    /\ nrecv < MaxPackets
    /\ LET r == ProcessPacket(packet, device_imei[c], now, failAt, pubFail)
       IN  /\ device_imei' = [d \in Conns |-> r.imei]
           /\ sock' = [sock EXCEPT ![c] = @ \o r.acks]
           /\ wrErr' = [wrErr EXCEPT ![c] = IF r.wrErr THEN @ + 1 ELSE @]
           /\ published' = published \o CallsOf(c, r.pubs)
    /\ data' = [data EXCEPT ![c] = packet]
    /\ pc' = [pc EXCEPT ![c] = "check"]
    /\ nrecv' = nrecv + 1
    /\ UNCHANGED << running, server_socket >>

\* recv returns a packet and _process_packet handles it.
Receive(c, packet, now, failAt, pubFail) ==
    /\ pc[c] = "recv"
    /\ nrecv < MaxPackets
    /\ LET r == ProcessPacket(packet, device_imei[c], now, failAt, pubFail)
       IN  /\ device_imei' = [device_imei EXCEPT ![c] = r.imei]
           /\ sock' = [sock EXCEPT ![c] = @ \o r.acks]
           /\ wrErr' = [wrErr EXCEPT ![c] = IF r.wrErr THEN @ + 1 ELSE @]
           /\ published' = published \o CallsOf(c, r.pubs)
    /\ data' = [data EXCEPT ![c] = packet]
    /\ pc' = [pc EXCEPT ![c] = "check"]
    /\ nrecv' = nrecv + 1
    /\ UNCHANGED << running, server_socket >>

\* RecvEmpty without the break: the loop goes on to its next iteration.
RecvEmpty_NoBreak(c) ==
    /\ pc[c] = "recv"
    /\ data' = [data EXCEPT ![c] = << >>]
    /\ pc' = [pc EXCEPT ![c] = "check"]
    /\ UNCHANGED << running, server_socket, device_imei, sock, wrErr, published, nrecv >>

\* recv returns b'': the peer closed; break, then the finally clause.
RecvEmpty(c) ==
    /\ pc[c] = "recv"
    /\ data' = [data EXCEPT ![c] = << >>]
    /\ pc' = [pc EXCEPT ![c] = "done"]
    /\ UNCHANGED << running, server_socket, device_imei, sock, wrErr, published, nrecv >>

\* recv raises: the except clause of _handle_client, then the finally clause.
RecvError(c) ==
    /\ pc[c] = "recv"
    /\ pc' = [pc EXCEPT ![c] = "done"]
    /\ UNCHANGED << running, server_socket, device_imei, data, sock, wrErr, published, nrecv >>

(***************************************************************************)
(* The server model: the server starts, accepts connections and stops;     *)
(* every connection's thread reads packets until its peer closes, its recv *)
(* fails or the server has stopped.                                        *)
(***************************************************************************)
ReceiveServer(c) ==
    /\ pc[c] = "recv"
    /\ nrecv < MaxPackets
    /\ \E packet \in ServerPackets, now \in Times, failAt \in 0..1, pubFail \in 0..1 :
          Receive(c, packet, now, failAt, pubFail)

Next ==
    \/ StartServer
    \/ StopServer
    \/ \E c \in Conns : Accept(c)
    \/ \E c \in Conns : LoopCheck(c)
    \/ \E c \in Conns : ReceiveServer(c)
    \/ \E c \in Conns : RecvEmpty(c)
    \/ \E c \in Conns : RecvError(c)

Spec == Init /\ [][Next]_vars

(***************************************************************************)
(* The session model: one accepted connection receives packets of every    *)
(* kind.                                                                   *)
(***************************************************************************)
\* The server is listening and the thread of connection 1 has just started.
InitSession ==
    /\ running = TRUE
    /\ server_socket = "listening"
    /\ pc = [c \in Conns |-> IF c = 1 THEN "check" ELSE "none"]
    /\ device_imei = [c \in Conns |-> None]
    /\ data = [c \in Conns |-> << >>]
    /\ sock = [c \in Conns |-> << >>]
    /\ wrErr = [c \in Conns |-> 0]
    /\ published = << >>
    /\ nrecv = 0

ReceiveSession(c) ==
    /\ pc[c] = "recv"
    /\ nrecv < MaxPackets
    /\ \E packet \in SessionPackets, now \in Times, failAt \in 0..1, pubFail \in 0..1 :
          Receive(c, packet, now, failAt, pubFail)

NextSession ==
    \/ StopServer
    \/ \E c \in Conns : LoopCheck(c)
    \/ \E c \in Conns : ReceiveSession(c)
    \/ \E c \in Conns : RecvEmpty(c)
    \/ \E c \in Conns : RecvError(c)

SpecSession == InitSession /\ [][NextSession]_vars

(***************************************************************************)
(* The location model: one connection, at the point where it has read all  *)
(* but the last of its packets, receives one LOCATION packet made of full  *)
(* and truncated records.                                                  *)
(***************************************************************************)
\* Lengths and feature masks of the truncated last record.
TailLens == { 0, 8, 11, 12, 26, 27, 73 }
TailMasks == { 0, 1, 127 }

\* Connection 1 is in recv; it is either unidentified (its packets so far
\* were rejected) or identified (the last one was a LOGIN, acked).
InitLoc ==
    /\ running = TRUE
    /\ server_socket = "listening"
    /\ pc = [c \in Conns |-> IF c = 1 THEN "recv" ELSE "none"]
    /\ wrErr = [c \in Conns |-> 0]
    /\ published = << >>
    /\ nrecv = MaxPackets - 1
    /\ \E now \in Times :
        \/ /\ device_imei = [c \in Conns |-> None]
           /\ data = [c \in Conns |-> IF c = 1 THEN ShortPacket ELSE << >>]
           /\ sock = [c \in Conns |-> << >>]
        \/ /\ device_imei = [c \in Conns |-> IF c = 1 THEN HexOfBytes(ImeiB) ELSE None]
           /\ data = [c \in Conns |->
                        IF c = 1 THEN LoginPacket(ImeiB, 2, MinLoginLen + 4) ELSE << >>]
           /\ sock = [c \in Conns |-> IF c = 1 THEN << LoginAck(2, now) >> ELSE << >>]

ReceiveLocation(c) ==
    /\ pc[c] = "recv"
    /\ nrecv < MaxPackets
    /\ \E n \in 0..MaxChunks, tailLen \in TailLens, tailMask \in TailMasks,
         now \in Times, failAt \in 0..(MaxChunks + 1), pubFail \in 0..(MaxChunks + 1) :
          /\ n + tailLen > 0
          /\ Receive(c, LocationPacket(n, tailLen, tailMask), now, failAt, pubFail)

NextLoc ==
    \/ \E c \in Conns : ReceiveLocation(c)
    \/ \E c \in Conns : LoopCheck(c)

SpecLoc == InitLoc /\ [][NextLoc]_vars

(***************************************************************************)
(* The ack codec model: a connection that has read all but the last of its *)
(* packets receives a HEARTBEAT with any 16-bit sequence number.           *)
(***************************************************************************)
\* The header decoding at the top of _process_packet and of the handlers:
\* << >> for a rejected input, otherwise << command, sequence >>.
Invalid == << >>
DecodeHeader(bytes) ==
    IF ~ValidHeader(bytes) THEN Invalid
    ELSE << bytes[3], IntFromBytes(Slice(bytes, 5, 7)) >>

InitAck ==
    /\ running = TRUE
    /\ server_socket = "listening"
    /\ pc = [c \in Conns |-> IF c = 1 THEN "recv" ELSE "none"]
    /\ device_imei = [c \in Conns |-> None]
    /\ data = [c \in Conns |-> IF c = 1 THEN ShortPacket ELSE << >>]
    /\ sock = [c \in Conns |-> << >>]
    /\ wrErr = [c \in Conns |-> 0]
    /\ published = << >>
    /\ nrecv = MaxPackets - 1

ReceiveHeartbeat(c) ==
    /\ pc[c] = "recv"
    /\ nrecv < MaxPackets
    /\ \E seq \in 0..MaxU16, now \in Times :
          Receive(c, HeartbeatPacket(seq, 258), now, 0, 0)

NextAck ==
    \/ \E c \in Conns : ReceiveHeartbeat(c)
    \/ \E c \in Conns : LoopCheck(c)

SpecAck == InitAck /\ [][NextAck]_vars

(***************************************************************************)
(* Vocabulary of the properties.  These read packets and acks byte by byte *)
(* (1-based), independently of the decoding operators above.               *)
(***************************************************************************)
\* Connection c took a packet from recv in this step; data'[c] is the packet.
Received(c) == nrecv' = nrecv + 1 /\ pc[c] = "recv" /\ pc'[c] # "recv"

\* The acks written to connection c, and the publish calls made, in this step.
NewAcks(c) == SubSeq(sock'[c], Len(sock[c]) + 1, Len(sock'[c]))
NewPubs == SubSeq(published', Len(published) + 1, Len(published'))

\* No write to connection c failed in this step.
WritesOk(c) == wrErr'[c] = wrErr[c]

\* The packet passes the header validation: at least 9 bytes, marker 67 67.
HeaderOk(p) == Len(p) >= 9 /\ p[1] = 103 /\ p[2] = 103

\* The sequence number (bytes 5-6) and the time (bytes 7-10) of the record
\* that starts at 0-based offset start of packet p.
SeqAt(p, start) == 256 * p[start + 6] + p[start + 7]
TimeAt(p, start) ==
    ((p[start + 8] * 256 + p[start + 9]) * 256 + p[start + 10]) * 256 + p[start + 11]

\* The 7-byte ack for command cmd of the record at offset start of packet p.
AckFor(cmd, p, start) == << 103, 103, cmd, 0, 2, p[start + 6], p[start + 7] >>

\* A LOCATION packet made of full 74-byte records only.
IsFullLocation(p) == HeaderOk(p) /\ p[3] = 18 /\ Len(p) % 74 = 0

\* Connection c has never been sent a login ack.
NotLoggedIn(c) == \A i \in 1..Len(sock[c]) : sock[c][i][3] # 1

\* The number of publish calls made for connection c.
NumPublished(c) == Cardinality({ i \in 1..Len(published) : published[i].conn = c })

(***************************************************************************)
(* C1: once a connection has an identity, no later packet changes it.      *)
(* The code replaces the identity on every LOGIN packet that passes the    *)
(* header test, so this is violated.                                       *)
(***************************************************************************)
C1_IdentityNeverChanges ==
    [][\A c \in Conns : device_imei[c] # None => device_imei'[c] = device_imei[c]]_vars

(***************************************************************************)
(* C2: a header-valid LOGIN packet of 9..19 bytes writes no ack, leaves    *)
(* the connection open and leaves the identity as it was.  The code        *)
(* returns None for it, which resets the identity of an identified         *)
(* connection, so this is violated.                                        *)
(***************************************************************************)
C2_ShortLoginKeepsIdentity ==
    [][\A c \in Conns :
        (Received(c) /\ HeaderOk(data'[c]) /\ data'[c][3] = 1 /\ Len(data'[c]) < 20)
        => /\ NewAcks(c) = << >>
           /\ pc'[c] # "done"
           /\ device_imei'[c] = device_imei[c]]_vars

(***************************************************************************)
(* C3: a connection with no identity publishes nothing, and its HEARTBEAT  *)
(* packets and full LOCATION records are still acked (when the write       *)
(* succeeds); a connection that has not logged in has zero publish calls.  *)
(***************************************************************************)
C3_NoPublishBeforeLogin ==
    [][/\ \A c \in Conns : NotLoggedIn(c)' => NumPublished(c)' = 0
       /\ \A c \in Conns :
            (Received(c) /\ device_imei[c] = None)
            => LET p == data'[c]
               IN  /\ published' = published
                   /\ (HeaderOk(p) /\ p[3] = 3 /\ WritesOk(c))
                      => NewAcks(c) = << AckFor(3, p, 0) >>
                   /\ (IsFullLocation(p) /\ WritesOk(c))
                      => /\ Len(NewAcks(c)) = Len(p) \div 74
                         /\ \A i \in 1..(Len(p) \div 74) :
                              NewAcks(c)[i] = AckFor(18, p, 74 * (i - 1))]_vars

\* An unidentified connection that has been acked a heartbeat and a location
\* record, with nothing published for it.
C3_Witness ==
    \E c \in Conns :
        /\ device_imei[c] = None
        /\ NotLoggedIn(c)
        /\ \E i, j \in 1..Len(sock[c]) : sock[c][i][3] = 3 /\ sock[c][j][3] = 18
        /\ NumPublished(c) = 0

(***************************************************************************)
(* C4: a packet received on one connection changes neither the identity    *)
(* nor the socket of another connection; the publish calls it causes are   *)
(* made for its own connection with that connection's identity; and a      *)
(* connection's identity only changes on a LOGIN packet received on that   *)
(* connection, to the IMEI that packet carries (or to None).               *)
(***************************************************************************)
C4_ConnectionIsolation ==
    [][\A c \in Conns :
        Received(c)
        => /\ \A d \in Conns \ {c} :
                device_imei'[d] = device_imei[d] /\ sock'[d] = sock[d]
           /\ SubSeq(published', 1, Len(published)) = published
           /\ \A i \in 1..Len(NewPubs) :
                NewPubs[i].conn = c /\ NewPubs[i].device_id = device_imei[c]
           /\ device_imei'[c] # device_imei[c]
              => /\ HeaderOk(data'[c]) /\ data'[c][3] = 1
                 /\ \/ device_imei'[c] = None
                    \/ /\ Len(data'[c]) >= 20
                       /\ device_imei'[c] = HexOfBytes(SubSeq(data'[c], 8, 15))]_vars

\* Two connections hold different identities and each has published a
\* telemetry event under its own.
C4_Witness ==
    \E c, d \in Conns :
        /\ c # d
        /\ device_imei[c] # None /\ device_imei[d] # None
        /\ device_imei[c] # device_imei[d]
        /\ \E i \in 1..Len(published) :
             published[i].conn = c /\ published[i].device_id = device_imei[c]

(***************************************************************************)
(* C5: a packet shorter than 9 bytes, or whose first two bytes are not     *)
(* 67 67, causes no ack and no publish call, and leaves the identity and   *)
(* the connection as they were.                                            *)
(***************************************************************************)
C5_InvalidFrameIgnored ==
    [][\A c \in Conns :
        (Received(c) /\ ~HeaderOk(data'[c]))
        => /\ sock' = sock
           /\ published' = published
           /\ device_imei' = device_imei
           /\ pc'[c] = "check"]_vars

\* An identified connection whose last packet was a rejected one.
C5_Witness ==
    \E c \in Conns :
        /\ data[c] \in { ShortPacket, BadMarkerPacket }
        /\ device_imei[c] # None
        /\ Len(sock[c]) = 1
        /\ nrecv = 3

(***************************************************************************)
(* C6: on an identified connection, a LOCATION packet of n full 74-byte    *)
(* records causes, when the writes succeed, exactly n publish calls and n  *)
(* acks, in record order; the i-th ack carries the sequence number of the  *)
(* i-th record and the i-th event the i-th record's time.                  *)
(***************************************************************************)
C6_OneEventAndAckPerChunk ==
    [][\A c \in Conns :
        (Received(c) /\ device_imei[c] # None /\ IsFullLocation(data'[c]) /\ WritesOk(c))
        => LET p == data'[c]
               n == Len(p) \div 74
           IN  /\ Len(NewAcks(c)) = n
               /\ Len(NewPubs) = n
               /\ \A i \in 1..n :
                    /\ NewAcks(c)[i] = AckFor(18, p, 74 * (i - 1))
                    /\ NewPubs[i].conn = c
                    /\ NewPubs[i].device_id = device_imei[c]
                    /\ NewPubs[i].data.kind = "location"
                    /\ NewPubs[i].data.timestamp = TimeAt(p, 74 * (i - 1))]_vars

\* An identified connection has handled a packet of two full records: two
\* events published and, after the login ack, two acks written.
C6_Witness ==
    \E c \in Conns :
        /\ data[c] = LocationPacket(2, 0, 0)
        /\ device_imei[c] # None
        /\ wrErr[c] = 0
        /\ Len(sock[c]) = 3
        /\ Len(published) = 2

(***************************************************************************)
(* C7: the last record of a LOCATION packet, when shorter than 74 bytes,   *)
(* gets no ack and no publish call, so that the acks and the events of the *)
(* packet number at most its full records.  The code acks and publishes    *)
(* a truncated record whenever its position still decodes, so this is      *)
(* violated.                                                               *)
(***************************************************************************)
C7_TruncatedRecordDiscarded ==
    [][\A c \in Conns :
        (Received(c) /\ HeaderOk(data'[c]) /\ data'[c][3] = 18 /\ Len(data'[c]) % 74 # 0)
        => /\ Len(NewAcks(c)) <= Len(data'[c]) \div 74
           /\ Len(NewPubs) <= Len(data'[c]) \div 74]_vars

(***************************************************************************)
(* C8: after a write to a connection has failed, no further packet of that *)
(* connection is processed.  _process_packet catches the exception of the  *)
(* failed send and the loop goes on, so this is violated.                  *)
(***************************************************************************)
C8_FailedWriteEndsLoop ==
    [][\A c \in Conns : wrErr[c] > 0 => ~Received(c)]_vars

(***************************************************************************)
(* C9 as claimed: the header decoder applied to the ack of a heartbeat     *)
(* with sequence s returns (HEARTBEAT, s).  The ack has 7 bytes and the    *)
(* decoder rejects anything shorter than 9, so this is violated.           *)
(***************************************************************************)
C9_AckRoundTrips ==
    \A c \in Conns :
        (HeaderOk(data[c]) /\ data[c][3] = 3 /\ sock[c] # << >>)
        => DecodeHeader(sock[c][Len(sock[c])]) = << 3, SeqAt(data[c], 0) >>

(***************************************************************************)
(* C9 as amended: the ack of a heartbeat with sequence s has 7 bytes, so   *)
(* the header decoder rejects it; its byte 2 is HEARTBEAT and its bytes    *)
(* 5-6 hold s, most significant byte first.                                *)
(***************************************************************************)
C9_AckRejectedButEchoesSeq ==
    \A c \in Conns :
        (HeaderOk(data[c]) /\ data[c][3] = 3 /\ sock[c] # << >>)
        => LET ack == sock[c][Len(sock[c])]
           IN  /\ Len(ack) = 7
               /\ DecodeHeader(ack) = Invalid
               /\ ack[3] = 3
               /\ 256 * ack[6] + ack[7] = SeqAt(data[c], 0)

\* The heartbeat with the largest sequence number has been acked.
C9_Witness ==
    \E c \in Conns :
        /\ HeaderOk(data[c]) /\ data[c][3] = 3
        /\ SeqAt(data[c], 0) = 65535
        /\ Len(sock[c]) = 1

\* An ack that starts with the marker and whose size field counts the bytes
\* after it: 9 for a login ack, 2 for any other.
WellFormedAck(a) ==
    /\ Len(a) >= 5
    /\ a[1] = 103 /\ a[2] = 103
    /\ 256 * a[4] + a[5] = Len(a) - 5
    /\ Len(a) - 5 = (IF a[3] = 1 THEN 9 ELSE 2)

(***************************************************************************)
(* C10: every ack written starts with 67 67, its length field (bytes 3-4)  *)
(* equals the number of bytes after that field, which is 9 for a login ack *)
(* and 2 for any other, and its command byte is that of the packet it      *)
(* answers.                                                                *)
(***************************************************************************)
C10_AckLengthField ==
    [][\A c \in Conns :
        /\ \A i \in 1..Len(sock'[c]) : WellFormedAck(sock'[c][i])
        /\ Received(c)
           => \A i \in 1..Len(NewAcks(c)) : NewAcks(c)[i][3] = data'[c][3]]_vars

\* A connection has been written a login ack, a heartbeat ack and a generic
\* ack.
C10_Witness ==
    \E c \in Conns :
        \E i, j, k \in 1..Len(sock[c]) :
            sock[c][i][3] = 1 /\ sock[c][j][3] = 3 /\ sock[c][k][3] = 128


(***************************************************************************)
(* The command model: a connection, unidentified or identified, that has   *)
(* read all but the last of its packets receives a LOGIN packet with one   *)
(* of several IMEIs and sequence numbers, or a packet with any command     *)
(* byte the server does not know.                                          *)
(***************************************************************************)
\* IMEI fields: with and without leading zero bytes and zero nibbles.
LoginImeis ==
    { ImeiA, ImeiB,
      << 0, 0, 0, 0, 0, 0, 0, 0 >>, << 255, 255, 255, 255, 255, 255, 255, 255 >>,
      << 0, 0, 0, 0, 0, 0, 0, 5 >>, << 0, 0, 0, 0, 0, 0, 0, 16 >>,
      << 0, 0, 0, 0, 0, 0, 1, 0 >>, << 1, 0, 0, 0, 0, 0, 0, 0 >> }

\* Sequence numbers of the generated packets.
CmdSeqs == { 0, 258, MaxU16 }

\* The command bytes _process_packet has no handler for.
UnknownCmds == (0..255) \ { CMD_LOGIN, CMD_HEARTBEAT, CMD_LOCATION }

ReceiveLogin(c) ==
    /\ pc[c] = "recv"
    /\ nrecv < MaxPackets
    /\ \E imei \in LoginImeis, seq \in CmdSeqs, len \in { MinLoginLen, MinLoginLen + 7 },
          now \in Times, failAt \in 0..1 :
          Receive(c, LoginPacket(imei, seq, len), now, failAt, 0)

ReceiveUnknown(c) ==
    /\ pc[c] = "recv"
    /\ nrecv < MaxPackets
    /\ \E cmd \in UnknownCmds, seq \in CmdSeqs, n \in { 2, 20 },
          now \in Times, failAt \in 0..1 :
          Receive(c, MkPacket(cmd, seq, Pad(n, 9)), now, failAt, 0)

NextCmd ==
    \/ \E c \in Conns : ReceiveLogin(c)
    \/ \E c \in Conns : ReceiveUnknown(c)
    \/ \E c \in Conns : LoopCheck(c)

SpecCmd == InitLoc /\ [][NextCmd]_vars

(***************************************************************************)
(* Vocabulary of the properties of the command model.                      *)
(***************************************************************************)
\* A LOGIN packet that passes the header test and has at least 20 bytes.
IsValidLogin(p) == HeaderOk(p) /\ p[3] = 1 /\ Len(p) >= 20

\* The hexadecimal digits of the bytes bs, most significant first.
Nibbles(bs) ==
    [i \in 1..(2 * Len(bs)) |->
        IF i % 2 = 1 THEN bs[(i + 1) \div 2] \div 16 ELSE bs[i \div 2] % 16]

RECURSIVE DropLeadingZeros(_)
DropLeadingZeros(ns) ==
    IF ns = << >> THEN << >>
    ELSE IF ns[1] = 0 THEN DropLeadingZeros(Tail(ns)) ELSE ns

HexChar(n) ==
    CASE n = 0 -> "0" [] n = 1 -> "1" [] n = 2 -> "2" [] n = 3 -> "3"
      [] n = 4 -> "4" [] n = 5 -> "5" [] n = 6 -> "6" [] n = 7 -> "7"
      [] n = 8 -> "8" [] n = 9 -> "9" [] n = 10 -> "a" [] n = 11 -> "b"
      [] n = 12 -> "c" [] n = 13 -> "d" [] n = 14 -> "e" [] n = 15 -> "f"

RECURSIVE RenderDigits(_)
RenderDigits(ns) ==
    IF ns = << >> THEN "" ELSE HexChar(ns[1]) \o RenderDigits(Tail(ns))

\* The lowercase hexadecimal rendering, without leading zeros, of the
\* big-endian integer held in bs ("0" for zero).
HexString(bs) ==
    LET ns == DropLeadingZeros(Nibbles(bs))
    IN  IF ns = << >> THEN "0" ELSE RenderDigits(ns)

(***************************************************************************)
(* C11: for a valid LOGIN packet the login handler publishes nothing, and  *)
(* the identity it returns (it returns once the ack is written) is the     *)
(* lowercase hexadecimal rendering, without leading zeros, of the          *)
(* big-endian integer in bytes 7-14, whatever the sequence number in       *)
(* bytes 5-6.                                                              *)
(***************************************************************************)
C11_LoginIdentityIsHexOfImei ==
    [][\A c \in Conns :
        (Received(c) /\ IsValidLogin(data'[c]))
        => /\ published' = published
           /\ WritesOk(c) => device_imei'[c] = HexString(SubSeq(data'[c], 8, 15))]_vars

\* The IMEI field 00 00 00 00 00 00 01 00, sent with sequence number 65535 to
\* an unidentified connection, has become the identity "100".
C11_Witness ==
    \E c \in Conns :
        /\ data[c] = LoginPacket(<< 0, 0, 0, 0, 0, 0, 1, 0 >>, 65535, 20)
        /\ device_imei[c] = "100"
        /\ Len(sock[c]) = 1
        /\ published = << >>


(***************************************************************************)
(* C12: a packet that passes the header test and whose command byte is     *)
(* none of 0x01, 0x03, 0x12 causes no publish call and leaves the identity *)
(* of every connection unchanged, and it is answered by exactly one ack,   *)
(* which carries the received command byte, the length field 2 and the     *)
(* received sequence number (the ack is missing only when the socket write *)
(* itself raised).                                                         *)
(***************************************************************************)
C12_UnknownCommandGetsGenericAck ==
    [][\A c \in Conns :
        (Received(c) /\ HeaderOk(data'[c]) /\ data'[c][3] \notin { 1, 3, 18 })
        => /\ published' = published
           /\ device_imei' = device_imei
           /\ IF WritesOk(c)
              THEN NewAcks(c) = << AckFor(data'[c][3], data'[c], 0) >>
              ELSE NewAcks(c) = << >>]_vars

\* An identified connection received command 0xff with sequence number 65535
\* and was sent the ack 67 67 ff 00 02 ff ff.
C12_Witness ==
    \E c \in Conns :
        /\ HeaderOk(data[c]) /\ data[c][3] = 255
        /\ device_imei[c] = "abc"
        /\ Len(sock[c]) = 2
        /\ sock[c][2] = << 103, 103, 255, 0, 2, 255, 255 >>
        /\ published = << >>


(***************************************************************************)
(* Vocabulary of the properties of the end of a connection.                *)
(***************************************************************************)
\* The recv of connection c returns without a packet in this step: it
\* returned b'' or it raised.
ReadEnded(c) == pc[c] = "recv" /\ pc'[c] # "recv" /\ nrecv' = nrecv

\* The thread of connection c has left its loop and closed client_socket.
Closed(c) == pc[c] = "done"

\* No ack is written to connection c and no event is published for it in
\* this step.
Silent(c) ==
    /\ sock'[c] = sock[c]
    /\ wrErr'[c] = wrErr[c]
    /\ \A i \in 1..Len(NewPubs) : NewPubs[i].conn # c

(***************************************************************************)
(* C13: when the read of a connection returns empty or raises, the loop of *)
(* that connection ends and its socket is closed in the same step, and     *)
(* from then on the connection stays closed, no ack is written to it and   *)
(* no event is published for it, whatever the other connections do.        *)
(***************************************************************************)
C13_EndOfReadEndsConnection ==
    [][\A c \in Conns :
        /\ ReadEnded(c) => pc'[c] = "done" /\ Silent(c) /\ device_imei'[c] = device_imei[c]
        /\ Closed(c) => pc'[c] = "done" /\ Silent(c)]_vars

\* A connection that logged in was closed by an empty read, and another
\* connection has logged in and published a heartbeat.
C13_Witness ==
    \E c, d \in Conns :
        /\ c # d
        /\ pc[c] = "done" /\ data[c] = << >> /\ Len(sock[c]) = 1
        /\ Len(sock[d]) = 2
        /\ NumPublished(d) = 1 /\ NumPublished(c) = 0


(***************************************************************************)
(* The telemetry model: a connection, unidentified or identified, that has *)
(* read all but the last of its packets receives a HEARTBEAT or a LOCATION *)
(* packet; any one socket write and any one mqtt_client.publish of the     *)
(* packet may raise.                                                       *)
(***************************************************************************)
\* Status words of the generated heartbeats.
BeatStatuses == { 0, 258 }

ReceiveBeat(c) ==
    /\ pc[c] = "recv"
    /\ nrecv < MaxPackets
    /\ \E seq \in CmdSeqs, status \in BeatStatuses, now \in Times,
          failAt \in 0..1, pubFail \in 0..1 :
          Receive(c, HeartbeatPacket(seq, status), now, failAt, pubFail)

NextTel ==
    \/ \E c \in Conns : ReceiveBeat(c)
    \/ \E c \in Conns : ReceiveLocation(c)
    \/ \E c \in Conns : LoopCheck(c)

SpecTel == InitLoc /\ [][NextTel]_vars

(***************************************************************************)
(* Vocabulary of the properties of the telemetry model.                    *)
(***************************************************************************)
\* A HEARTBEAT or LOCATION packet that passes the header test.
IsTelemetry(p) == HeaderOk(p) /\ p[3] \in { 3, 18 }

\* The units of a telemetry packet: 1 for a heartbeat, the number of full
\* 74-byte records for a LOCATION packet.
FullUnits(p) == IF p[3] = 3 THEN 1 ELSE Len(p) \div 74

\* A publish call of this step failed inside the sink.
SinkFailed == \E i \in 1..Len(NewPubs) : ~NewPubs[i].delivered

(***************************************************************************)
(* C14: when the publish sink fails while an identified connection handles *)
(* a HEARTBEAT or a LOCATION packet (and the socket writes succeed), every *)
(* unit handed to the sink, the failed one included, still gets its ack,   *)
(* the heartbeat and every full record of the batch are handled, the loop  *)
(* goes on and the identity is unchanged.                                  *)
(***************************************************************************)
C14_PublishFailureKeepsAcks ==
    [][\A c \in Conns :
        (Received(c) /\ device_imei[c] # None /\ IsTelemetry(data'[c])
            /\ SinkFailed /\ WritesOk(c))
        => LET p == data'[c]
           IN  /\ Len(NewAcks(c)) = Len(NewPubs)
               /\ Len(NewAcks(c)) >= FullUnits(p)
               /\ \A k \in 1..Len(NewAcks(c)) :
                    NewAcks(c)[k] = AckFor(p[3], p, 74 * (k - 1))
               /\ device_imei' = device_imei
               /\ pc'[c] = "check"]_vars

\* An identified connection has handled a packet of two full records: the
\* publish of the first failed in the sink, the second was delivered, and
\* both records were acked after the login ack.
C14_Witness ==
    \E c \in Conns :
        /\ data[c] = LocationPacket(2, 0, 0)
        /\ device_imei[c] = "abc"
        /\ wrErr[c] = 0
        /\ Len(sock[c]) = 3
        /\ Len(published) = 2
        /\ ~published[1].delivered /\ published[2].delivered


(***************************************************************************)
(* Vocabulary of the properties of the position decoder.                   *)
(***************************************************************************)
\* Bit i of m, as 0 or 1.
Bit(m, i) == (m \div (2 ^ i)) % 2

\* The bytes of a POSITION structure with feature mask m: time and mask,
\* then the optional blocks.
PositionSize(m) ==
    5 + 15 * Bit(m, 0) + 11 * Bit(m, 1) + 7 * Bit(m, 2) + 7 * Bit(m, 3)
      + 7 * Bit(m, 4) + 7 * Bit(m, 5) + 7 * Bit(m, 6)

\* The record rec (7 header bytes, then the POSITION structure) is too
\* short for the structure its mask announces, so unpacking it raises.
DecodeFails(rec) == Len(rec) < 12 \/ Len(rec) - 7 < PositionSize(rec[12])

\* The last, shorter record of LOCATION packet p (empty when p is made of
\* full records only).
LastRecord(p) == SubSeq(p, Len(p) - (Len(p) % 74) + 1, Len(p))

\* A LOCATION packet whose last record cannot be unpacked.
HasBadRecord(p) ==
    HeaderOk(p) /\ p[3] = 18 /\ Len(p) % 74 # 0 /\ DecodeFails(LastRecord(p))

(***************************************************************************)
(* C15: the exception raised when a record of a LOCATION packet cannot be  *)
(* unpacked stays inside the packet processor: the connection goes back to *)
(* the loop test (it is not closed), the identity it had before the packet *)
(* is the identity it has after it, and no socket write failed.  (A        *)
(* HEARTBEAT that passed the header test has its 9 bytes and cannot fail   *)
(* to unpack.)                                                             *)
(***************************************************************************)
C15_DecodeErrorStaysInside ==
    [][\A c \in Conns :
        (Received(c) /\ HasBadRecord(data'[c]))
        => /\ pc'[c] = "check"
           /\ running' = running
           /\ device_imei' = device_imei
           /\ WritesOk(c) => Len(NewAcks(c)) = Len(data'[c]) \div 74]_vars

\* An identified connection received one full record followed by 26 bytes
\* of a record with a GPS block: the first record was published and acked,
\* the identity is kept and the connection is in recv again.
C15_Witness ==
    \E c \in Conns :
        /\ data[c] = LocationPacket(1, 26, 1)
        /\ device_imei[c] = "abc"
        /\ pc[c] = "recv"
        /\ wrErr[c] = 0
        /\ Len(sock[c]) = 2
        /\ Len(published) = 1


(***************************************************************************)
(* The position model: a connection, unidentified or identified, that has  *)
(* read all but the last of its packets receives one location record with  *)
(* any feature mask 0..255 and any length that holds at least the time and *)
(* the mask, or a full record with a GPS block and any raw altitude.       *)
(***************************************************************************)
\* The raw altitude whose two bytes are 13 and 14, their own positions in
\* the POSITION structure.
PlainAltitude == 3342

\* One location record cut to len bytes.  Every byte of the data section
\* holds its own position in it (0..66), except the mask (position 4) and
\* the raw altitude (positions 13 and 14), so that the value decoded for a
\* field tells the position it was read at.
PositionRecord(mask, alt, len) ==
    SubSeq(MkPacket(CMD_LOCATION, 7,
                    [i \in 1..(ChunkLen - 7) |->
                        IF i = 5 THEN mask
                        ELSE IF i = 14 THEN PackH(alt)[1]
                        ELSE IF i = 15 THEN PackH(alt)[2]
                        ELSE i - 1]),
           1, len)

ReceivePosition(c) ==
    /\ pc[c] = "recv"
    /\ nrecv < MaxPackets
    /\ \E mask \in 0..255, len \in 12..ChunkLen, now \in Times :
          Receive(c, PositionRecord(mask, PlainAltitude, len), now, 0, 0)

ReceiveAltitude(c) ==
    /\ pc[c] = "recv"
    /\ nrecv < MaxPackets
    /\ \E alt \in 0..MaxU16, now \in Times :
          Receive(c, PositionRecord(1, alt, ChunkLen), now, 0, 0)

NextPos ==
    \/ \E c \in Conns : ReceivePosition(c)
    \/ \E c \in Conns : ReceiveAltitude(c)
    \/ \E c \in Conns : LoopCheck(c)

SpecPos == InitLoc /\ [][NextPos]_vars

(***************************************************************************)
(* Vocabulary of the properties of the position model.                     *)
(***************************************************************************)
\* A single location record, as long as its feature mask requires.
IsLongRecord(p) ==
    /\ HeaderOk(p) /\ p[3] = 18
    /\ Len(p) >= 12 /\ Len(p) <= 74
    /\ Len(p) - 7 >= PositionSize(p[12])

\* The names of the optional sub-records, by mask bit.
BlockNames == << "gps", "bsid0", "bsid1", "bsid2", "bss0", "bss1", "bss2" >>

\* The big-endian 16-bit word at position i of the data section of record
\* p, as far as the record reaches.
WordAt(p, i) ==
    IF i + 9 <= Len(p) THEN 256 * p[i + 8] + p[i + 9]
    ELSE IF i + 8 <= Len(p) THEN p[i + 8]
    ELSE 0

(***************************************************************************)
(* C16: for every feature mask m in 0..255 and every record long enough    *)
(* for it, the position decoder succeeds, reports 5 + 15*[bit0] +          *)
(* 11*[bit1] + 7*[bit2] + ... + 7*[bit6] bytes consumed (bit 7 adds        *)
(* nothing; 5 for mask 0x00, 20 for mask 0x01) and returns a sub-record    *)
(* exactly for each set bit 0..6; the status word of the published event   *)
(* is the word read right after those bytes, and the event has cell        *)
(* information exactly when bit 1 is set and an altitude exactly when bit  *)
(* 0 is set.                                                               *)
(***************************************************************************)
C16_PositionBytesConsumed ==
    [][\A c \in Conns :
        (Received(c) /\ IsLongRecord(data'[c]))
        => LET p   == data'[c]
               m   == p[12]
               pos == ParsePosition(SubSeq(p, 8, Len(p)))
           IN  /\ pos.ok
               /\ pos.offset = PositionSize(m)
               /\ m = 0 => pos.offset = 5 /\ pos.keys = {}
               /\ m = 1 => pos.offset = 20 /\ pos.keys = { "gps" }
               /\ m = 128 => pos.offset = 5 /\ pos.keys = {}
               /\ pos.keys = { BlockNames[i + 1] : i \in { j \in 0..6 : Bit(m, j) = 1 } }
               /\ device_imei[c] # None
                  => /\ Len(NewPubs) = 1
                     /\ NewPubs[1].data.status = WordAt(p, PositionSize(m))
                     /\ NewPubs[1].data.cell_info = (Bit(m, 1) = 1)
                     /\ (NewPubs[1].data.altitude # << >>) = (Bit(m, 0) = 1)]_vars

\* An identified connection received a full record with mask 0xff: the
\* status of its event is the single byte left at position 66, and it has
\* cell information and the altitude 3342.
C16_Witness ==
    \E c \in Conns :
        /\ data[c] = PositionRecord(255, PlainAltitude, 74)
        /\ Len(sock[c]) = 2
        /\ Len(published) = 1
        /\ published[1].data.status = 66
        /\ published[1].data.cell_info
        /\ published[1].data.altitude = << 3342 >>

(***************************************************************************)
(* C17: for every raw altitude x in 0..65535 of a GPS block, the altitude  *)
(* of the published event is x when x < 32768 and x - 65536 otherwise.     *)
(***************************************************************************)
C17_AltitudeIsTwosComplement ==
    [][\A c \in Conns :
        (Received(c) /\ IsLongRecord(data'[c]) /\ Bit(data'[c][12], 0) = 1
            /\ device_imei[c] # None)
        => LET x == 256 * data'[c][21] + data'[c][22]
           IN  /\ Len(NewPubs) = 1
               /\ NewPubs[1].data.altitude = << IF x < 32768 THEN x ELSE x - 65536 >>]_vars

\* The raw altitude 0xffff was published as -1.
C17_Witness ==
    \E c \in Conns :
        /\ Len(data[c]) = 74 /\ data[c][12] = 1
        /\ data[c][21] = 255 /\ data[c][22] = 255
        /\ Len(published) = 1
        /\ published[1].data.altitude = << -1 >>


(***************************************************************************)
(* C18: when record k of a LOCATION packet cannot be unpacked (and the     *)
(* socket writes succeed), the outcome is a strict prefix: records         *)
(* 1..k-1 have each been published (if the connection is identified) and   *)
(* acked, in order, what was written and published before the packet is    *)
(* still there, and record k and whatever follows it produce neither an    *)
(* ack nor an event.                                                       *)
(***************************************************************************)
C18_FailingRecordLeavesPrefix ==
    [][\A c \in Conns :
        (Received(c) /\ HasBadRecord(data'[c]) /\ WritesOk(c))
        => LET p == data'[c]
               k == (Len(p) \div 74) + 1
           IN  /\ SubSeq(sock'[c], 1, Len(sock[c])) = sock[c]
               /\ SubSeq(published', 1, Len(published)) = published
               /\ Len(NewAcks(c)) = k - 1
               /\ \A i \in 1..(k - 1) : NewAcks(c)[i] = AckFor(18, p, 74 * (i - 1))
               /\ Len(NewPubs) = IF device_imei[c] # None THEN k - 1 ELSE 0
               /\ \A i \in 1..Len(NewPubs) :
                    /\ NewPubs[i].conn = c
                    /\ NewPubs[i].data.timestamp = TimeAt(p, 74 * (i - 1))]_vars

\* An identified connection received two full records followed by 11 bytes
\* of a third: two events and two acks, for the records 301 and 302.
C18_Witness ==
    \E c \in Conns :
        /\ data[c] = LocationPacket(2, 11, 0)
        /\ device_imei[c] = "abc"
        /\ wrErr[c] = 0
        /\ Len(sock[c]) = 3
        /\ sock[c][2] = << 103, 103, 18, 0, 2, 1, 45 >>
        /\ sock[c][3] = << 103, 103, 18, 0, 2, 1, 46 >>
        /\ Len(published) = 2
        /\ published[1].data.timestamp = 1 /\ published[2].data.timestamp = 2


(***************************************************************************)
(* C19: on an identified connection every HEARTBEAT and every LOCATION     *)
(* record is handed to the publish sink before its ack is written: the     *)
(* k-th ack of a packet is always matched by the k-th publish call of the  *)
(* packet, which is the event of that unit, and when the write of an ack   *)
(* raises, the event of its unit has already been published, so there is   *)
(* one more publish call than acks.                                        *)
(***************************************************************************)
C19_PublishPrecedesAck ==
    [][\A c \in Conns :
        (Received(c) /\ device_imei[c] # None /\ IsTelemetry(data'[c]))
        => LET p == data'[c]
           IN  /\ Len(NewPubs) >= Len(NewAcks(c))
               /\ \A k \in 1..Len(NewAcks(c)) :
                    /\ NewAcks(c)[k] = AckFor(p[3], p, 74 * (k - 1))
                    /\ NewPubs[k].conn = c
                    /\ IF p[3] = 3
                       THEN /\ NewPubs[k].data.kind = "heartbeat"
                            /\ NewPubs[k].data.status = 256 * p[8] + p[9]
                       ELSE /\ NewPubs[k].data.kind = "location"
                            /\ NewPubs[k].data.timestamp = TimeAt(p, 74 * (k - 1))
               /\ ~WritesOk(c)
                  => /\ Len(NewPubs) = Len(NewAcks(c)) + 1
                     /\ NewPubs[Len(NewPubs)].conn = c
                     /\ p[3] = 18
                        => NewPubs[Len(NewPubs)].data.timestamp
                               = TimeAt(p, 74 * Len(NewAcks(c)))
               /\ WritesOk(c) => Len(NewPubs) = Len(NewAcks(c))]_vars

\* An identified connection received two full records and the write of the
\* second ack raised: one ack after the login ack, two events published.
C19_Witness ==
    \E c \in Conns :
        /\ data[c] = LocationPacket(2, 0, 0)
        /\ device_imei[c] = "abc"
        /\ wrErr[c] = 1
        /\ Len(sock[c]) = 2
        /\ Len(published) = 2
        /\ published[2].data.timestamp = 2


(***************************************************************************)
(* C20: a valid LOGIN packet changes the identity of its connection only   *)
(* when the login ack was written: if the write raises, the connection     *)
(* keeps the identity it had before the packet (none if it had none), no   *)
(* ack is on the socket, and the connection goes back to the loop test,    *)
(* still open; if the write succeeds, the login ack is the one ack written.*)
(***************************************************************************)
C20_LoginNeedsAckWrite ==
    [][\A c \in Conns :
        (Received(c) /\ IsValidLogin(data'[c]))
        => /\ ~WritesOk(c)
              => /\ device_imei'[c] = device_imei[c]
                 /\ NewAcks(c) = << >>
           /\ device_imei'[c] # device_imei[c]
              => /\ WritesOk(c)
                 /\ Len(NewAcks(c)) = 1
                 /\ NewAcks(c)[1][3] = 1
           /\ pc'[c] = "check"
           /\ running' = running]_vars

\* A connection identified as "abc" received a valid LOGIN of the device
\* 351608012345678 and the write of the login ack raised: it is still
\* "abc", only its first login ack is on the socket, and it is in recv again.
C20_Witness ==
    \E c \in Conns :
        /\ data[c] = LoginPacket(ImeiA, 258, 20)
        /\ device_imei[c] = "abc"
        /\ wrErr[c] = 1
        /\ Len(sock[c]) = 1
        /\ pc[c] = "recv"

====
